---- MODULE Spec2Model ----
(***************************************************************************)
(* Model of the transaction submission core of cord.py:                    *)
(*   packages/network/src/chain/subscriptionPromise.py  (Resolution        *)
(*       Arbiter: make_subscription_promise and its subscription callback) *)
(*   packages/network/src/chain/chain.py  (predicates, the closures        *)
(*       callback / handle_disconnect, submit_signed_tx)                   *)
(*   packages/network/src/chain/errorHandling/errorHandler.py              *)
(*   packages/config/src/service.py  (ConfigService)                       *)
(*                                                                         *)
(* Python values are modelled by strings: "True", "False", "None" and the  *)
(* names of exception instances.  A dict is a record that carries the set  *)
(* of keys it holds (field keys): d['k'] on an absent key raises KeyError, *)
(* d.get('k', default) yields the default.                                 *)
(***************************************************************************)
EXTENDS Integers, Sequences, FiniteSets, TLC

VARIABLES
    termination_options, \* the dict handed to make_subscription_promise
    future,              \* the asyncio future it creates
    timer,               \* the loop.call_later handle: "none", "armed", "fired"
    latest_result,       \* the nonlocal cell of submit_signed_tx's closures
    fed,                 \* history: the values handed to subscription, in order
    timerAt,             \* history: Len(fed) when the timer callback ran, -1 before
    raised,              \* the exception that escaped the last callback ("none")
    event,               \* history: the last callback the loop ran
    config,              \* ConfigService._config
    pc,                  \* position of the submit_signed_tx call
    api,                 \* its local api
    opts,                \* its opts argument
    resolve_on,          \* its local resolve_on
    reject_on,           \* its local reject_on
    outcome,             \* how the call ended: "none" or the exception raised
    transport,           \* the transport: subscribe calls, handlers, timers
    calls,               \* number of submit_signed_tx calls started
    terminal_error,      \* the argument of get_extrinsic_error
    registry,            \* the module errors the metadata registry knows
    phase,               \* "input", then "translated" or "surfaced"
    translated,          \* what get_extrinsic_error returned or raised
    surfaced,            \* what line 103 of chain.py raises
    multi_args,          \* the list handed to make_subscription_promise_multi
    futures,             \* the futures it returns
    timers,              \* their call_later handles
    alone,               \* history: the future each criteria set reaches alone
    multi_fed,           \* history: values handed to the shared subscription
    multi_raised,        \* the exception that escaped its last call
    batch_pc,            \* position of the get_max_batchable call
    weight_info,         \* weight_info['weight'] of the transaction
    maxBlock,            \* api.constants.system.blockWeights['maxBlock']
    extrinsic_ref_time,  \* locals of get_max_batchable
    total_ref_time,
    remaining_ref_time,
    count,
    cfg_call,            \* the last ConfigService / config.py call: op, key, arg
    cfg_result,          \* what it returned or raised
    last_set,            \* history: per key the last value set, "unset" after unset
    id_key,              \* the key handed to encode_identifier
    id_prefix,           \* the identifier prefix handed to it
    identifier,          \* the string handed to check_identifier
    id_pc,               \* "input", "encoded", "checked", "raised"
    id_result            \* what check_identifier returned or raised

arbiterVars == <<termination_options, future, timer, latest_result, fed, timerAt, raised, event>>

submitVars == <<config, pc, api, opts, resolve_on, reject_on, outcome, transport, calls>>

translateVars == <<terminal_error, registry, phase, translated, surfaced>>

multiVars == <<multi_args, futures, timers, alone, multi_fed, multi_raised>>

batchVars == <<batch_pc, weight_info, maxBlock, extrinsic_ref_time, total_ref_time,
               remaining_ref_time, count>>

configCallVars == <<cfg_call, cfg_result, last_set>>

identifierVars == <<id_key, id_prefix, identifier, id_pc, id_result>>

vars == <<termination_options, future, timer, latest_result, fed, timerAt, raised, event,
          config, pc, api, opts, resolve_on, reject_on, outcome, transport, calls,
          terminal_error, registry, phase, translated, surfaced,
          multi_args, futures, timers, alone, multi_fed, multi_raised,
          batch_pc, weight_info, maxBlock, extrinsic_ref_time, total_ref_time,
          remaining_ref_time, count,
          cfg_call, cfg_result, last_set,
          id_key, id_prefix, identifier, id_pc, id_result>>

(***************************************************************************)
(* Bounds                                                                  *)
(***************************************************************************)
\* longest sequence of values fed to one subscription callback
MaxFeeds == 3

\* number of sequential submit_signed_tx calls explored
MaxCalls == 2

(***************************************************************************)
(* Python values                                                           *)
(***************************************************************************)
\* Exception('connection error'), built by handle_disconnect
ConnectionError == "Exception(connection error)"

\* an internal error object put into an update by the transport
TransportError == "Exception(transport)"

\* SDKErrors.TimeoutError(), built by the timer callback
TimeoutError == "TimeoutError"

ExceptionInstances == {ConnectionError, TransportError, TimeoutError}

Truthy(v) == v \notin {"False", "None"}

PyBool(b) == IF b THEN "True" ELSE "False"

\* the outcome of evaluating an expression: a value, or an exception raised
Returns(v) == [raises |-> "none", val |-> v]

Raises(e) == [raises |-> e, val |-> "None"]

(***************************************************************************)
(* Status updates (dicts)                                                  *)
(***************************************************************************)
\* an event is event['event'] of the source: its section and method
ExtrinsicFailedEvent == [section |-> "system", method |-> "ExtrinsicFailed"]

ExtrinsicSuccessEvent == [section |-> "system", method |-> "ExtrinsicSuccess"]

TransportKeys == {"status", "isInBlock", "isFinalized", "isError", "internalError",
                  "events", "dispatchError", "txHash"}

Update(status, inBlock, finalized, isErr, internal, evs, dispatch) ==
    [py |-> "dict", keys |-> TransportKeys, status |-> status, isInBlock |-> inBlock,
     isFinalized |-> finalized, isError |-> isErr, internalError |-> internal,
     events |-> evs, dispatchError |-> dispatch, txHash |-> "0xab"]

\* the Python value None where a dict is expected
NoneResult ==
    [py |-> "None", keys |-> {}, status |-> "None", isInBlock |-> FALSE,
     isFinalized |-> FALSE, isError |-> FALSE, internalError |-> "None",
     events |-> <<>>, dispatchError |-> "None", txHash |-> "None"]

UReady == Update("Ready", FALSE, FALSE, FALSE, "None", <<>>, "None")

UInBlock == Update("InBlock", TRUE, FALSE, FALSE, "None", <<ExtrinsicSuccessEvent>>, "None")

UInBlockFailed == Update("InBlock", TRUE, FALSE, FALSE, "None", <<ExtrinsicFailedEvent>>, "Module")

UFinalized == Update("Finalized", FALSE, TRUE, FALSE, "None", <<ExtrinsicSuccessEvent>>, "None")

UFinalizedFailed == Update("Finalized", FALSE, TRUE, FALSE, "None", <<ExtrinsicFailedEvent>>, "Module")

UInvalid == Update("Invalid", FALSE, FALSE, TRUE, "None", <<>>, "None")

UInternalError == Update("Ready", FALSE, FALSE, FALSE, TransportError, <<>>, "None")

\* the updates the transport delivers
TransportUpdates == {UReady, UInBlock, UInBlockFailed, UFinalized, UFinalizedFailed,
                     UInvalid, UInternalError}

(***************************************************************************)
(* Predicates of chain.py and errorHandler.py                              *)
(***************************************************************************)
\* result[k] for a key whose value is a flag
Subscript(result, k, v) == IF k \in result.keys THEN Returns(v) ELSE Raises("KeyError")

is_ready(result) == Subscript(result, "status", PyBool(result.status = "Ready"))

is_in_block(result) == Subscript(result, "isInBlock", PyBool(result.isInBlock))

is_finalized(result) == Subscript(result, "isFinalized", PyBool(result.isFinalized))

is_error(result) ==
    IF "isError" \notin result.keys THEN Raises("KeyError")
    ELSE IF result.isError THEN Returns("True")
    ELSE IF "internalError" \notin result.keys THEN Raises("KeyError")
    ELSE Returns(result.internalError)

HasEvent(result, ev) == \E i \in 1..Len(result.events) : result.events[i] = ev

extrinsic_failed(result) ==
    Subscript(result, "events", PyBool(HasEvent(result, ExtrinsicFailedEvent)))

extrinsic_successful(result) ==
    Subscript(result, "events", PyBool(HasEvent(result, ExtrinsicSuccessEvent)))

\* lambda result: extrinsic_failed(result) or is_error(result)
default_reject_on(result) ==
    LET a == extrinsic_failed(result)
    IN  IF a.raises # "none" \/ Truthy(a.val) THEN a ELSE is_error(result)

\* calling a predicate held in a variable; "None" is no predicate
Apply(p, result) ==
    CASE p = "is_ready" -> is_ready(result)
      [] p = "is_in_block" -> is_in_block(result)
      [] p = "is_finalized" -> is_finalized(result)
      [] p = "is_error" -> is_error(result)
      [] p = "extrinsic_failed" -> extrinsic_failed(result)
      [] p = "extrinsic_executed" -> extrinsic_successful(result)
      [] p = "default_reject_on" -> default_reject_on(result)
      [] OTHER -> Returns("None")

ResolvePredicates == {"None", "is_ready", "is_in_block", "is_finalized", "extrinsic_executed"}

RejectPredicates == {"None", "extrinsic_failed", "is_error", "default_reject_on"}

\* the timeout in milliseconds when one is given
TimeoutMs == 100

(***************************************************************************)
(* asyncio.Future                                                          *)
(***************************************************************************)
PendingFuture == [state |-> "PENDING", result |-> NoneResult, exception |-> "None"]

done(f) == f.state # "PENDING"

\* Future.set_exception: [future, raises]
set_exception(f, exc) ==
    IF done(f) THEN [future |-> f, raises |-> "InvalidStateError"]
    ELSE IF exc \notin ExceptionInstances THEN [future |-> f, raises |-> "TypeError"]
    ELSE [future |-> [f EXCEPT !.state = "FINISHED", !.exception = exc], raises |-> "none"]

\* Future.set_result: [future, raises]
set_result(f, value) ==
    IF done(f) THEN [future |-> f, raises |-> "InvalidStateError"]
    ELSE [future |-> [f EXCEPT !.state = "FINISHED", !.result = value], raises |-> "none"]

\* the Outcome a future holds
Outcome(f) ==
    IF ~done(f) THEN "PENDING"
    ELSE IF f.exception = TimeoutError THEN "TIMED_OUT"
    ELSE IF f.exception # "None" THEN "REJECTED"
    ELSE "RESOLVED"

(***************************************************************************)
(* make_subscription_promise                                               *)
(***************************************************************************)
\* the body of the subscription callback: [future, raises]
subscription(to, f, value) ==
    LET rj == Apply(to.rejectOn, value)
        rs == Apply(to.resolveOn, value)
    IN  IF to.rejectOn # "None" /\ rj.raises # "none" THEN [future |-> f, raises |-> rj.raises]
        ELSE IF to.rejectOn # "None" /\ Truthy(rj.val)
             THEN IF ~done(f) THEN set_exception(f, rj.val)
                  ELSE [future |-> f, raises |-> "none"]
        ELSE IF to.resolveOn # "None" /\ rs.raises # "none" THEN [future |-> f, raises |-> rs.raises]
        ELSE IF to.resolveOn # "None" /\ Truthy(rs.val)
             THEN IF ~done(f) THEN set_result(f, value)
                  ELSE [future |-> f, raises |-> "none"]
        ELSE [future |-> f, raises |-> "none"]

\* a timer lambda that leaves the future alone
timeout_callback_noop(f) == [future |-> f, raises |-> "none"]

\* the lambda handed to loop.call_later: [future, raises]
timeout_callback(f) == set_exception(f, TimeoutError)

(***************************************************************************)
(* The closures of submit_signed_tx that drive the subscription callback.  *)
(* They hand the callback a delivered update or the dict built from the    *)
(* cached one; the callback they drive here is the one returned by         *)
(* make_subscription_promise(termination_options), which accepts any value *)
(* a client feeds it.                                                      *)
(***************************************************************************)
\* d.get(k, default) on None: no such attribute
NoneGet == Raises("AttributeError")

\* the dict handle_disconnect builds from the cached update
synthesized_result(latest) ==
    [py |-> "dict", keys |-> {"events", "internalError", "status", "txHash"},
     status |-> IF "status" \in latest.keys THEN latest.status ELSE "future",
     isInBlock |-> FALSE, isFinalized |-> FALSE, isError |-> FALSE,
     internalError |-> ConnectionError,
     events |-> IF "events" \in latest.keys THEN latest.events ELSE <<>>,
     dispatchError |-> "None", txHash |-> ""]

(***************************************************************************)
(* ErrorHandler.get_extrinsic_error and the except clause of               *)
(* submit_signed_tx that calls it                                          *)
(***************************************************************************)
\* largest pallet index and error index of a module error
MaxPallet == 1

MaxErrorIndex == 2

\* a dispatch error object: None, a non-module one, or a module error
NoDispatchError == [kind |-> "None", pallet |-> 0, index |-> 0]

OtherDispatchError == [kind |-> "BadOrigin", pallet |-> 0, index |-> 0]

ModuleError(p, i) == [kind |-> "Module", pallet |-> p, index |-> i]

ModuleErrors == {ModuleError(p, i) : p \in 0..MaxPallet, i \in 0..MaxErrorIndex}

DispatchErrors == {NoDispatchError, OtherDispatchError} \cup ModuleErrors

\* error_event['isModule']
isModule(d) == d.kind = "Module"

\* the values get_extrinsic_error returns and line 103 raises
ValNone == [t |-> "None", name |-> "", d |-> NoDispatchError]

ValRaw(d) == [t |-> "raw", name |-> "", d |-> d]

ValDoc(d) == [t |-> "doc", name |-> "", d |-> d]

ValExc(name) == [t |-> "exc", name |-> name, d |-> NoDispatchError]

TReturns(v) == [raises |-> "none", val |-> v]

TRaises(e) == [raises |-> e, val |-> ValNone]

\* a result dict; keys tells whether it holds 'dispatchError'
ResultDict(keys, d) == [py |-> "dict", name |-> "", keys |-> keys, dispatchError |-> d]

\* an exception instance the future was rejected with; dispatchError is that
\* of the update it was rejected on, which the exception does not hold
RejectionError(name, d) == [py |-> "exception", name |-> name, keys |-> {}, dispatchError |-> d]

NoTerminalError == [py |-> "None", name |-> "", keys |-> {}, dispatchError |-> NoDispatchError]

\* what `except Exception as e` binds: the timeout, the connection error of
\* handle_disconnect, the internalError of an update
AwaitErrors ==
    {RejectionError(TimeoutError, NoDispatchError),
     RejectionError(ConnectionError, NoDispatchError)}
    \cup {RejectionError(TransportError, d) : d \in DispatchErrors}

TerminalErrors ==
    {ResultDict({"dispatchError"}, d) : d \in DispatchErrors}
    \cup {ResultDict({}, NoDispatchError)}
    \cup AwaitErrors

\* a registry knows the error indexes below some index, in every pallet
Registries == {{m \in ModuleErrors : m.index < k} : k \in 0..(MaxErrorIndex + 1)}

\* module_error['registry'].find_meta_error(module_error)
find_meta_error(reg, m) == IF m \in reg THEN TReturns(ValDoc(m)) ELSE TRaises("Exception")

\* get_extrinsic_error with the lookup left out
get_extrinsic_error_raw(x, reg) ==
    IF x.py # "dict" THEN TRaises("AttributeError")
    ELSE IF "dispatchError" \in x.keys /\ x.dispatchError # NoDispatchError
         THEN TReturns(ValRaw(x.dispatchError))
         ELSE TReturns(ValNone)

get_extrinsic_error(x, reg) ==
    IF x.py # "dict" THEN TRaises("AttributeError")
    ELSE LET error_event == IF "dispatchError" \in x.keys THEN x.dispatchError
                            ELSE NoDispatchError
         IN  IF error_event # NoDispatchError /\ isModule(error_event)
             THEN LET r == find_meta_error(reg, error_event)
                  IN  IF r.raises = "none" THEN r ELSE TReturns(ValRaw(error_event))
             ELSE IF error_event # NoDispatchError THEN TReturns(ValRaw(error_event))
             ELSE TReturns(ValNone)

\* raise ErrorHandler.get_extrinsic_error(e) or e: the exception that leaves
raise_translated(e, reg) ==
    LET r == get_extrinsic_error(e, reg)
    IN  IF r.raises # "none" THEN ValExc(r.raises)
        ELSE IF r.val # ValNone THEN r.val
        ELSE ValExc(e.name)

TranslateIdle ==
    /\ terminal_error = NoTerminalError
    /\ registry = {}
    /\ phase = "idle"
    /\ translated = TReturns(ValNone)
    /\ surfaced = ValNone

(***************************************************************************)
(* make_subscription_promise_multi                                         *)
(***************************************************************************)
\* number of criteria sets handed to make_subscription_promise_multi
MultiSets == 2

\* longest sequence of values fed to the shared subscription callback
MaxMultiFeeds == 2

\* for sub in subscriptions: sub(value), from position i on: [futures, raises]
RECURSIVE for_sub(_, _, _, _)
for_sub(as, fs, value, i) ==
    IF i > Len(as) THEN [futures |-> fs, raises |-> "none"]
    ELSE LET r == subscription(as[i], fs[i], value)
             gs == [fs EXCEPT ![i] = r.future]
         IN  IF r.raises # "none" THEN [futures |-> gs, raises |-> r.raises]
             ELSE for_sub(as, gs, value, i + 1)

MultiIdle ==
    /\ multi_args = <<>>
    /\ futures = <<>>
    /\ timers = <<>>
    /\ alone = <<>>
    /\ multi_fed = <<>>
    /\ multi_raised = "none"

(***************************************************************************)
(* get_max_batchable                                                       *)
(***************************************************************************)
\* largest reference time of an extrinsic and of a block
MaxRefTime == 3

MaxBlockRefTime == 8

\* most loop iterations followed in one call
MaxCount == 8

\* a weight: V2 / V1.5 holds 'refTime', V1 holds 'weight'
Weight(version, n) == [version |-> version, refTime |-> n, weight |-> n]

NoWeight == Weight("None", 0)

convert_weight(w) == IF w.version = "V2" THEN w.refTime ELSE w.weight

BatchIdle ==
    /\ batch_pc = "idle"
    /\ weight_info = NoWeight
    /\ maxBlock = NoWeight
    /\ extrinsic_ref_time = 0
    /\ total_ref_time = 0
    /\ remaining_ref_time = 0
    /\ count = 0

(***************************************************************************)
(* Calls of ConfigService and of config.py's disconnect                    *)
(***************************************************************************)
\* the keys the SDK stores
ConfigKeys == {"api", "submitTxResolveOn"}

NoCall == [op |-> "none", key |-> "none", arg |-> "None"]

ConfigCallIdle ==
    /\ cfg_call = NoCall
    /\ cfg_result = Returns("None")
    /\ last_set = [k \in ConfigKeys |-> "unset"]

(***************************************************************************)
(* identifier.py: encode_identifier and check_identifier                   *)
(* A byte array is a sequence of 0..255.  A string is a record: the text   *)
(* that base58 gives for a byte array, or a text with a character outside  *)
(* the base58 alphabet.  The blake2b digest is stood in for by a two-byte  *)
(* checksum of its input: the code uses that the digest is a function of   *)
(* the bytes hashed, and its first one or two bytes.                       *)
(***************************************************************************)
\* largest byte value a key is filled with
MaxKeyByte == 1

\* the identifier types of packages/utils/src/idents.py: one encoded in one
\* byte, one encoded in two
VALID_IDENTS == {29, 3390}

\* defaults["allowed_decoded_lengths"]
allowed_decoded_lengths == {1, 2, 4, 8, 32, 33}

\* defaults["allowed_encoded_lengths"]
allowed_encoded_lengths == {3, 4, 6, 10, 35, 36, 37, 38}

\* defaults[k]
defaults(k) ==
    IF k = "allowed_decoded_lengths" THEN [raises |-> "none", val |-> allowed_decoded_lengths]
    ELSE IF k = "allowed_encoded_lengths"
         THEN [raises |-> "none", val |-> allowed_encoded_lengths]
    ELSE [raises |-> "KeyError", val |-> {}]

RECURSIVE SumBytes(_)
SumBytes(data) == IF data = <<>> THEN 0 ELSE Head(data) + SumBytes(Tail(data))

\* pphash(key): the first two bytes of the digest
pphash(data) == <<(SumBytes(data) + 7 * Len(data)) % 256, (3 * SumBytes(data) + Len(data)) % 256>>

\* base58_encode(data)
base58_encode(data) == [text |-> "base58", bytes |-> data]

\* a string with a character that base58 does not have
NotBase58 == [text |-> "other", bytes |-> <<>>]

\* base58_decode(s): [raises, val]
base58_decode(s) ==
    IF s.text = "base58" THEN [raises |-> "none", val |-> s.bytes]
    ELSE [raises |-> "ValueError", val |-> <<>>]

\* a (bool, message) pair returned, or an exception raised
IdReturns(ok, message) == [raises |-> "none", val |-> <<ok, message>>]

IdRaises(e) == [raises |-> e, val |-> <<"None", "None">>]

\* check_identifier_checksum(decoded): isValid and iDfrDecoded, or IndexError
check_identifier_checksum(decoded) ==
    IF Len(decoded) = 0 THEN [raises |-> "IndexError", isValid |-> FALSE, iDfrDecoded |-> 0]
    ELSE LET iDfrLength == IF (decoded[1] \div 64) % 2 # 0 THEN 2 ELSE 1
         IN  IF iDfrLength = 2 /\ Len(decoded) < 2
             THEN [raises |-> "IndexError", isValid |-> FALSE, iDfrDecoded |-> 0]
             ELSE LET iDfrDecoded ==
                          IF iDfrLength = 2
                          THEN (decoded[1] % 64) * 4 + (decoded[2] \div 64)
                                   + (decoded[2] % 64) * 256
                          ELSE decoded[1]
                      isContentHash == Len(decoded) \in {34 + iDfrLength, 35 + iDfrLength}
                      length == Len(decoded) - (IF isContentHash THEN 2 ELSE 1)
                      hash_value == pphash(SubSeq(decoded, 1, length))
                      isValid ==
                          /\ (decoded[1] \div 128) % 2 = 0
                          /\ decoded[1] \notin {46, 47}
                          /\ IF isContentHash
                             THEN /\ decoded[Len(decoded) - 1] = hash_value[1]
                                  /\ decoded[Len(decoded)] = hash_value[2]
                             ELSE decoded[Len(decoded)] = hash_value[1]
                  IN  [raises |-> "none", isValid |-> isValid, iDfrDecoded |-> iDfrDecoded]

\* encode_identifier(key, iDPrefix): [raises, val]
encode_identifier(k, iDPrefix) ==
    IF Len(k) = 0 THEN [raises |-> "AssertionError", val |-> NotBase58]
    ELSE IF ~(0 <= iDPrefix /\ iDPrefix <= 16383 /\ iDPrefix \notin {46, 47})
         THEN [raises |-> "AssertionError", val |-> NotBase58]
    ELSE IF Len(k) \notin defaults("allowed_decoded_lengths").val
         THEN [raises |-> "AssertionError", val |-> NotBase58]
    ELSE LET prefix == IF iDPrefix < 64 THEN <<iDPrefix>>
                       ELSE <<((iDPrefix % 256) \div 4) + 64,
                              (iDPrefix \div 256) + (iDPrefix % 4) * 64>>
             input_data == prefix \o k
             n == IF Len(k) \in {32, 33} THEN 2 ELSE 1
         IN  [raises |-> "none",
              val |-> base58_encode(input_data \o SubSeq(pphash(input_data), 1, n))]

\* check_identifier reading defaults under the key that exists
check_identifier_snake_case(s) ==
    LET d == base58_decode(s)
        c == check_identifier_checksum(d.val)
    IN  IF d.raises # "none" THEN IdReturns("False", "ValueError")
        ELSE IF c.raises # "none" THEN IdRaises(c.raises)
        ELSE IF c.iDfrDecoded \in VALID_IDENTS
             THEN IF Len(d.val) \notin defaults("allowed_encoded_lengths").val
                  THEN IdReturns("False", "Invalid decoded identifier length")
                  ELSE IF c.isValid THEN IdReturns("True", "None")
                       ELSE IdReturns("False", "Invalid decoded identifier checksum")
        ELSE IdReturns("False", "Prefix mismatch")

\* check_identifier(identifier)
check_identifier(s) ==
    LET d == base58_decode(s)
        c == check_identifier_checksum(d.val)
        lengths == defaults("allowedEncodedLengths")
    IN  IF d.raises # "none" THEN IdReturns("False", "ValueError")
        ELSE IF c.raises # "none" THEN IdRaises(c.raises)
        ELSE IF c.iDfrDecoded \in VALID_IDENTS
             THEN IF lengths.raises # "none" THEN IdRaises(lengths.raises)
                  ELSE IF Len(d.val) \notin lengths.val
                       THEN IdReturns("False", "Invalid decoded identifier length")
                  ELSE IF c.isValid THEN IdReturns("True", "None")
                       ELSE IdReturns("False", "Invalid decoded identifier checksum")
        ELSE IdReturns("False", "Prefix mismatch")

IdentifierIdle ==
    /\ id_key = <<>>
    /\ id_prefix = 0
    /\ identifier = NotBase58
    /\ id_pc = "idle"
    /\ id_result = IdRaises("none")

ArbiterInit ==
    /\ termination_options \in [resolveOn : ResolvePredicates, rejectOn : RejectPredicates,
                                timeout : {0, TimeoutMs}]
    /\ future = PendingFuture
    /\ timer = IF termination_options.timeout > 0 THEN "armed" ELSE "none"
    /\ latest_result = NoneResult
    /\ fed = <<>>
    /\ timerAt = -1
    /\ raised = "none"
    /\ event = "none"

SubmitInit ==
    /\ config = [api |-> "unset", submitTxResolveOn |-> "unset"]
    /\ pc = "idle"
    /\ api = "None"
    /\ opts = [resolveOn |-> "absent", rejectOn |-> "absent", timeout |-> 0]
    /\ resolve_on = "None"
    /\ reject_on = "None"
    /\ outcome = "none"
    /\ transport = [subscribed |-> 0, unsubscribed |-> 0, handlers |-> 0, timers |-> 0]
    /\ calls = 0

Init ==
    /\ ArbiterInit
    /\ SubmitInit
    /\ TranslateIdle
    /\ MultiIdle
    /\ BatchIdle
    /\ ConfigCallIdle
    /\ IdentifierIdle

\* a callback that caches the update only after feeding it went through
callback_feed_first(result) ==
    /\ Len(fed) < MaxFeeds
    /\ LET r == subscription(termination_options, future, result)
       IN  /\ future' = r.future
           /\ raised' = r.raises
           /\ latest_result' = IF r.raises = "none" THEN result ELSE latest_result
    /\ fed' = Append(fed, result)
    /\ event' = "callback"
    /\ UNCHANGED <<termination_options, timer, timerAt>>

\* callback(result): cache the update, then feed it to the subscription
callback(result) ==
    /\ Len(fed) < MaxFeeds
    /\ LET r == subscription(termination_options, future, result)
       IN  /\ future' = r.future
           /\ raised' = r.raises
    /\ latest_result' = result
    /\ fed' = Append(fed, result)
    /\ event' = "callback"
    /\ UNCHANGED <<termination_options, timer, timerAt>>

\* the transport delivers a status update
Deliver ==
    /\ \E result \in TransportUpdates : callback(result)
    /\ UNCHANGED <<submitVars, translateVars, multiVars, batchVars, configCallVars, identifierVars>>

\* the transport signals the disconnect: handle_disconnect()
handle_disconnect ==
    /\ Len(fed) < MaxFeeds
    /\ event' = "disconnect"
    /\ IF latest_result.py = "None"
       THEN /\ raised' = NoneGet.raises
            /\ UNCHANGED <<future, fed>>
       ELSE LET result == synthesized_result(latest_result)
                r == subscription(termination_options, future, result)
            IN  /\ future' = r.future
                /\ raised' = r.raises
                /\ fed' = Append(fed, result)
    /\ UNCHANGED <<termination_options, timer, timerAt, latest_result>>

Disconnect ==
    /\ handle_disconnect
    /\ UNCHANGED <<submitVars, translateVars, multiVars, batchVars, configCallVars, identifierVars>>

\* the loop runs the call_later callback; the handle was never kept, so
\* nothing cancels it
TimerFires ==
    /\ timer = "armed"
    /\ LET r == timeout_callback(future)
       IN  /\ future' = r.future
           /\ raised' = r.raises
    /\ timer' = "fired"
    /\ timerAt' = Len(fed)
    /\ event' = "timer"
    /\ UNCHANGED <<termination_options, latest_result, fed>>
    /\ UNCHANGED <<submitVars, translateVars, multiVars, batchVars, configCallVars, identifierVars>>

Next == Deliver \/ Disconnect \/ TimerFires

Spec == Init /\ [][Next]_vars

(***************************************************************************)
(* ConfigService                                                           *)
(***************************************************************************)
\* ConfigService.is_set(key)
is_set(cfg, key) == cfg[key] # "unset"

\* cls._config.get(key, default) of the dict
dict_get(cfg, key, default) == IF cfg[key] # "unset" THEN cfg[key] ELSE default

\* a get that hands back the default passed for a key that is not set
get_or_default(cfg, key, default) ==
    IF ~is_set(cfg, key)
    THEN IF default # "None" THEN Returns(default)
         ELSE IF key = "api" THEN Raises("BlockchainApiMissingError") ELSE Raises("Exception")
    ELSE Returns(dict_get(cfg, key, default))

\* ConfigService.get(key, default)
get(cfg, key, default) ==
    IF ~is_set(cfg, key)
    THEN IF key = "api" THEN Raises("BlockchainApiMissingError") ELSE Raises("Exception")
    ELSE Returns(dict_get(cfg, key, default))

\* ConfigService.set({key: value})
set(cfg, key, value) == [cfg EXCEPT ![key] = value]

\* ConfigService.unset(key)
unset(cfg, key) == [cfg EXCEPT ![key] = "unset"]

\* the api objects a program configures: over a websocket, over http
Apis == {"WsProvider", "HttpProvider"}

\* api.has_subscriptions
has_subscriptions_always(a) == TRUE

has_subscriptions(a) == a = "WsProvider"

(***************************************************************************)
(* submit_signed_tx                                                        *)
(***************************************************************************)
\* default_resolve_on()
default_resolve_on(cfg) ==
    IF is_set(cfg, "submitTxResolveOn") THEN get(cfg, "submitTxResolveOn", "None").val
    ELSE "is_finalized"

\* opts.get(key, default)
opts_get(o, key, default) == IF o[key] = "absent" THEN default ELSE o[key]

\* the opts dicts a caller passes; None and {} leave every key absent
OptsChoices ==
    [resolveOn : {"absent", "is_in_block"}, rejectOn : {"absent", "extrinsic_failed"},
     timeout : {0, TimeoutMs}]

\* make_subscription_promise declares one parameter, termination_options
make_subscription_promise_parameters == 1

\* binding the positional arguments of a call to make_subscription_promise
call_make_subscription_promise(args) ==
    IF Len(args) # make_subscription_promise_parameters THEN Raises("TypeError")
    ELSE Returns("promise, subscription")

NoTransportActivity == [subscribed |-> 0, unsubscribed |-> 0, handlers |-> 0, timers |-> 0]

\* no arbiter exists while submit_signed_tx is followed on its own
ArbiterIdle ==
    /\ termination_options = [resolveOn |-> "None", rejectOn |-> "None", timeout |-> 0]
    /\ future = PendingFuture
    /\ timer = "none"
    /\ latest_result = NoneResult
    /\ fed = <<>>
    /\ timerAt = -1
    /\ raised = "none"
    /\ event = "none"

Suspended == pc \in {"idle", "ended"}

\* the program calls ConfigService.set
ConfigSet ==
    /\ Suspended
    /\ \/ \E a \in Apis : config' = set(config, "api", a)
       \/ \E p \in {"is_in_block", "is_finalized"} : config' = set(config, "submitTxResolveOn", p)
    /\ UNCHANGED <<pc, api, opts, resolve_on, reject_on, outcome, transport, calls>>
    /\ UNCHANGED <<arbiterVars, translateVars, multiVars, batchVars, configCallVars, identifierVars>>

\* the program calls ConfigService.unset
ConfigUnset ==
    /\ Suspended
    /\ \E k \in ConfigKeys : config' = unset(config, k)
    /\ UNCHANGED <<pc, api, opts, resolve_on, reject_on, outcome, transport, calls>>
    /\ UNCHANGED <<arbiterVars, translateVars, multiVars, batchVars, configCallVars, identifierVars>>

\* submit_signed_tx(tx, opts) is called: opts = opts or {}
Call ==
    /\ Suspended
    /\ calls < MaxCalls
    /\ calls' = calls + 1
    /\ \E o \in OptsChoices : opts' = o
    /\ pc' = "L70"
    /\ api' = "None"
    /\ resolve_on' = "None"
    /\ reject_on' = "None"
    /\ outcome' = "none"
    /\ UNCHANGED <<config, transport>>
    /\ UNCHANGED <<arbiterVars, translateVars, multiVars, batchVars, configCallVars, identifierVars>>

\* resolve_on = opts.get('resolveOn', default_resolve_on()); reject_on likewise
EffectiveCriteria ==
    /\ pc = "L70"
    /\ resolve_on' = opts_get(opts, "resolveOn", default_resolve_on(config))
    /\ reject_on' = opts_get(opts, "rejectOn", "default_reject_on")
    /\ pc' = "L73"
    /\ UNCHANGED <<config, api, opts, outcome, transport, calls>>
    /\ UNCHANGED <<arbiterVars, translateVars, multiVars, batchVars, configCallVars, identifierVars>>

\* api = ConfigService.get('api')
GetApi ==
    /\ pc = "L73"
    /\ LET r == get(config, "api", "None")
       IN  IF r.raises # "none"
           THEN /\ outcome' = r.raises
                /\ pc' = "ended"
                /\ api' = api
           ELSE /\ api' = r.val
                /\ pc' = "L74"
                /\ outcome' = outcome
    /\ UNCHANGED <<config, opts, resolve_on, reject_on, transport, calls>>
    /\ UNCHANGED <<arbiterVars, translateVars, multiVars, batchVars, configCallVars, identifierVars>>

\* if not api.has_subscriptions: raise SubscriptionsNotSupportedError()
CheckSubscriptions ==
    /\ pc = "L74"
    /\ IF ~has_subscriptions(api)
       THEN /\ outcome' = "SubscriptionsNotSupportedError"
            /\ pc' = "ended"
       ELSE /\ pc' = "L78"
            /\ outcome' = outcome
    /\ UNCHANGED <<config, api, opts, resolve_on, reject_on, transport, calls>>
    /\ UNCHANGED <<arbiterVars, translateVars, multiVars, batchVars, configCallVars, identifierVars>>

\* promise, subscription = make_subscription_promise(opts, resolve_on, reject_on):
\* three positional arguments for one parameter, so the call raises and the
\* lines after it (subscribe, the disconnect handler, the wait, the cleanup)
\* are not reached
MakePromise ==
    /\ pc = "L78"
    /\ LET r == call_make_subscription_promise(<<opts, resolve_on, reject_on>>)
       IN  /\ r.raises # "none"
           /\ outcome' = r.raises
           /\ pc' = "ended"
    /\ UNCHANGED <<config, api, opts, resolve_on, reject_on, transport, calls>>
    /\ UNCHANGED <<arbiterVars, translateVars, multiVars, batchVars, configCallVars, identifierVars>>

SubmitNext ==
    \/ ConfigSet
    \/ ConfigUnset
    \/ Call
    \/ EffectiveCriteria
    \/ GetApi
    \/ CheckSubscriptions
    \/ MakePromise

InitSubmit ==
    /\ ArbiterIdle
    /\ SubmitInit
    /\ TranslateIdle
    /\ MultiIdle
    /\ BatchIdle
    /\ ConfigCallIdle
    /\ IdentifierIdle

SpecSubmit == InitSubmit /\ [][SubmitNext]_vars

(***************************************************************************)
(* The translator applied to one terminal error                            *)
(***************************************************************************)
TranslateInit ==
    /\ terminal_error \in TerminalErrors
    /\ registry \in Registries
    /\ phase = "input"
    /\ translated = TReturns(ValNone)
    /\ surfaced = ValNone

InitTranslate ==
    /\ ArbiterIdle
    /\ SubmitInit
    /\ TranslateInit
    /\ MultiIdle
    /\ BatchIdle
    /\ ConfigCallIdle
    /\ IdentifierIdle

\* ErrorHandler.get_extrinsic_error(terminal_error)
Translate ==
    /\ phase = "input"
    /\ translated' = get_extrinsic_error(terminal_error, registry)
    /\ phase' = "translated"
    /\ UNCHANGED <<terminal_error, registry, surfaced>>
    /\ UNCHANGED <<arbiterVars, submitVars, multiVars, batchVars, configCallVars, identifierVars>>

\* the except clause of submit_signed_tx, entered with an awaited error
Surface ==
    /\ phase = "input"
    /\ terminal_error \in AwaitErrors
    /\ surfaced' = raise_translated(terminal_error, registry)
    /\ phase' = "surfaced"
    /\ UNCHANGED <<terminal_error, registry, translated>>
    /\ UNCHANGED <<arbiterVars, submitVars, multiVars, batchVars, configCallVars, identifierVars>>

TranslateNext == Translate \/ Surface

SpecTranslate == InitTranslate /\ [][TranslateNext]_vars

(***************************************************************************)
(* The futures of make_subscription_promise_multi on one update stream     *)
(***************************************************************************)
MultiInit ==
    /\ multi_args \in [1..MultiSets -> [resolveOn : ResolvePredicates, rejectOn : RejectPredicates,
                                  timeout : {0, TimeoutMs}]]
    /\ futures = [i \in 1..MultiSets |-> PendingFuture]
    /\ timers = [i \in 1..MultiSets |-> IF multi_args[i].timeout > 0 THEN "armed" ELSE "none"]
    /\ alone = [i \in 1..MultiSets |-> PendingFuture]
    /\ multi_fed = <<>>
    /\ multi_raised = "none"

InitMulti ==
    /\ ArbiterIdle
    /\ SubmitInit
    /\ TranslateIdle
    /\ MultiInit
    /\ BatchIdle
    /\ ConfigCallIdle
    /\ IdentifierIdle

\* the values a client hands to the shared subscription callback
MultiValues == TransportUpdates \cup {synthesized_result(UInBlock)}

\* the shared subscription(value)
MultiDeliver ==
    /\ Len(multi_fed) < MaxMultiFeeds
    /\ \E value \in MultiValues :
           LET r == for_sub(multi_args, futures, value, 1)
           IN  /\ futures' = r.futures
               /\ multi_raised' = r.raises
               /\ alone' = [i \in 1..MultiSets |-> subscription(multi_args[i], alone[i], value).future]
               /\ multi_fed' = Append(multi_fed, value)
    /\ UNCHANGED <<multi_args, timers>>
    /\ UNCHANGED <<arbiterVars, submitVars, translateVars, batchVars, configCallVars, identifierVars>>

\* the call_later callback of one of the futures runs
MultiTimerFires ==
    /\ \E i \in 1..MultiSets :
           /\ timers[i] = "armed"
           /\ timers' = [timers EXCEPT ![i] = "fired"]
           /\ futures' = [futures EXCEPT ![i] = timeout_callback(futures[i]).future]
           /\ alone' = [alone EXCEPT ![i] = timeout_callback(alone[i]).future]
           /\ multi_raised' = timeout_callback(futures[i]).raises
    /\ UNCHANGED <<multi_args, multi_fed>>
    /\ UNCHANGED <<arbiterVars, submitVars, translateVars, batchVars, configCallVars, identifierVars>>

MultiNext == MultiDeliver \/ MultiTimerFires

SpecMulti == InitMulti /\ [][MultiNext]_vars

(***************************************************************************)
(* One call of get_max_batchable                                           *)
(***************************************************************************)
\* what the transport answers: the weight of tx and the block weight limit
BatchInit ==
    /\ batch_pc = "idle"
    /\ weight_info \in {Weight(v, n) : v \in {"V1", "V2"}, n \in 0..MaxRefTime}
    /\ maxBlock \in {Weight(v, n) : v \in {"V1", "V2"}, n \in 0..MaxBlockRefTime}
    /\ extrinsic_ref_time = 0
    /\ total_ref_time = 0
    /\ remaining_ref_time = 0
    /\ count = 0

InitBatch ==
    /\ ArbiterIdle
    /\ config \in [api : {"unset", "WsProvider"}, submitTxResolveOn : {"unset"}]
    /\ pc = "idle"
    /\ api = "None"
    /\ opts = [resolveOn |-> "absent", rejectOn |-> "absent", timeout |-> 0]
    /\ resolve_on = "None"
    /\ reject_on = "None"
    /\ outcome = "none"
    /\ transport = NoTransportActivity
    /\ calls = 0
    /\ TranslateIdle
    /\ MultiIdle
    /\ BatchInit
    /\ ConfigCallIdle
    /\ IdentifierIdle

\* api = ConfigService.get('api')
BatchGetApi ==
    /\ batch_pc = "idle"
    /\ batch_pc' = IF get(config, "api", "None").raises # "none" THEN "raised" ELSE "L54"
    /\ UNCHANGED <<weight_info, maxBlock, extrinsic_ref_time, total_ref_time,
                   remaining_ref_time, count>>
    /\ UNCHANGED <<arbiterVars, submitVars, translateVars, multiVars, configCallVars, identifierVars>>

\* lines 54-60: the weights are converted and the loop variables set
BatchWeights ==
    /\ batch_pc = "L54"
    /\ extrinsic_ref_time' = convert_weight(weight_info)
    /\ total_ref_time' = (convert_weight(maxBlock) * 75) \div 100
    /\ remaining_ref_time' = (convert_weight(maxBlock) * 75) \div 100
    /\ count' = 0
    /\ batch_pc' = "L62"
    /\ UNCHANGED <<weight_info, maxBlock>>
    /\ UNCHANGED <<arbiterVars, submitVars, translateVars, multiVars, configCallVars, identifierVars>>

\* one iteration of the while loop
BatchLoop ==
    /\ batch_pc = "L62"
    /\ remaining_ref_time >= extrinsic_ref_time
    /\ count < MaxCount
    /\ remaining_ref_time' = remaining_ref_time - extrinsic_ref_time
    /\ count' = count + 1
    /\ UNCHANGED <<batch_pc, weight_info, maxBlock, extrinsic_ref_time, total_ref_time>>
    /\ UNCHANGED <<arbiterVars, submitVars, translateVars, multiVars, configCallVars, identifierVars>>

\* the loop condition fails: return count
BatchReturn ==
    /\ batch_pc = "L62"
    /\ remaining_ref_time < extrinsic_ref_time
    /\ batch_pc' = "returned"
    /\ UNCHANGED <<weight_info, maxBlock, extrinsic_ref_time, total_ref_time,
                   remaining_ref_time, count>>
    /\ UNCHANGED <<arbiterVars, submitVars, translateVars, multiVars, configCallVars, identifierVars>>

BatchNext == BatchGetApi \/ BatchWeights \/ BatchLoop \/ BatchReturn

SpecBatch == InitBatch /\ [][BatchNext]_vars

(***************************************************************************)
(* A program calling ConfigService and disconnect                          *)
(***************************************************************************)
\* the values a program stores under a key; init() stores whatever it is given,
\* None included
ConfigValues(k) ==
    IF k = "api" THEN Apis \cup {"None"} ELSE {"is_ready", "is_in_block", "is_finalized"}

\* the defaults a program passes to get: none, or a value of its own
Defaults == {"None", "fallback"}

InitConfig ==
    /\ ArbiterIdle
    /\ SubmitInit
    /\ TranslateIdle
    /\ MultiIdle
    /\ BatchIdle
    /\ ConfigCallIdle
    /\ IdentifierIdle

ConfigFrame ==
    /\ UNCHANGED <<pc, api, opts, resolve_on, reject_on, outcome, transport, calls>>
    /\ UNCHANGED <<arbiterVars, translateVars, multiVars, batchVars, identifierVars>>

\* ConfigService.set({k: v})
CallSet ==
    /\ \E k \in ConfigKeys : \E v \in ConfigValues(k) :
           /\ config' = set(config, k, v)
           /\ cfg_call' = [op |-> "set", key |-> k, arg |-> v]
           /\ last_set' = [last_set EXCEPT ![k] = v]
    /\ cfg_result' = Returns("None")
    /\ ConfigFrame

\* ConfigService.unset(k)
CallUnset ==
    /\ \E k \in ConfigKeys :
           /\ config' = unset(config, k)
           /\ cfg_call' = [op |-> "unset", key |-> k, arg |-> "None"]
           /\ last_set' = [last_set EXCEPT ![k] = "unset"]
    /\ cfg_result' = Returns("None")
    /\ ConfigFrame

\* ConfigService.get(k, default)
CallGet ==
    /\ \E k \in ConfigKeys : \E default \in Defaults :
           /\ cfg_result' = get(config, k, default)
           /\ cfg_call' = [op |-> "get", key |-> k, arg |-> default]
    /\ UNCHANGED <<config, last_set>>
    /\ ConfigFrame

\* ConfigService.is_set(k)
CallIsSet ==
    /\ \E k \in ConfigKeys :
           /\ cfg_result' = Returns(PyBool(is_set(config, k)))
           /\ cfg_call' = [op |-> "is_set", key |-> k, arg |-> "None"]
    /\ UNCHANGED <<config, last_set>>
    /\ ConfigFrame

\* config.py: disconnect()
CallDisconnect ==
    /\ cfg_call' = [op |-> "disconnect", key |-> "api", arg |-> "None"]
    /\ IF ~is_set(config, "api")
       THEN /\ cfg_result' = Returns("False")
            /\ UNCHANGED <<config, last_set>>
       ELSE /\ config' = unset(config, "api")
            /\ last_set' = [last_set EXCEPT !["api"] = "unset"]
            /\ cfg_result' = Returns("True")
    /\ ConfigFrame

ConfigNext == CallSet \/ CallUnset \/ CallGet \/ CallIsSet \/ CallDisconnect

SpecConfig == InitConfig /\ [][ConfigNext]_vars

(***************************************************************************)
(* A key encoded by encode_identifier and checked by check_identifier      *)
(***************************************************************************)
\* key lengths tried: the allowed ones, an empty key, a length not allowed
KeyLengths == allowed_decoded_lengths \cup {0, 3}

Keys == {[i \in 1..n |-> b] : n \in KeyLengths, b \in 0..MaxKeyByte}

\* prefixes tried: the valid identifier types, two that are not, a reserved one
Prefixes == VALID_IDENTS \cup {5, 100, 46}

\* strings that no encode_identifier call made: the empty string, a string
\* that is not base58, a lone prefix byte
ForeignStrings == {base58_encode(<<>>), NotBase58, base58_encode(<<64>>), base58_encode(<<5, 9>>)}

InitIdentifier ==
    /\ ArbiterIdle
    /\ SubmitInit
    /\ TranslateIdle
    /\ MultiIdle
    /\ BatchIdle
    /\ ConfigCallIdle
    /\ id_key \in Keys
    /\ id_prefix \in Prefixes
    /\ identifier = NotBase58
    /\ id_pc = "input"
    /\ id_result = IdRaises("none")

IdentifierFrame ==
    UNCHANGED <<arbiterVars, submitVars, translateVars, multiVars, batchVars, configCallVars>>

\* identifier = encode_identifier(key, iDPrefix)
Encode ==
    /\ id_pc = "input"
    /\ LET r == encode_identifier(id_key, id_prefix)
       IN  /\ identifier' = r.val
           /\ id_pc' = IF r.raises = "none" THEN "encoded" ELSE "raised"
    /\ UNCHANGED <<id_key, id_prefix, id_result>>
    /\ IdentifierFrame

\* check_identifier(identifier) on the encoded key
Check ==
    /\ id_pc = "encoded"
    /\ id_result' = check_identifier(identifier)
    /\ id_pc' = "checked"
    /\ UNCHANGED <<id_key, id_prefix, identifier>>
    /\ IdentifierFrame

\* check_identifier on a string from elsewhere
CheckForeign ==
    /\ id_pc = "input"
    /\ \E s \in ForeignStrings :
           /\ identifier' = s
           /\ id_result' = check_identifier(s)
    /\ id_pc' = "checked_foreign"
    /\ UNCHANGED <<id_key, id_prefix>>
    /\ IdentifierFrame

IdentifierNext == Encode \/ Check \/ CheckForeign

SpecIdentifier == InitIdentifier /\ [][IdentifierNext]_vars

(***************************************************************************)
(* Claims about the Resolution Arbiter                                     *)
(***************************************************************************)
\* a predicate matches an update when it returns a truthy value
Matches(p, u) == p # "None" /\ Apply(p, u).raises = "none" /\ Truthy(Apply(p, u).val)

Terminal(u) ==
    Matches(termination_options.rejectOn, u) \/ Matches(termination_options.resolveOn, u)

\* index of the first fed update that matches either predicate, 0 when none does
FirstTerminal ==
    IF \E i \in 1..Len(fed) : Terminal(fed[i])
    THEN CHOOSE i \in 1..Len(fed) :
             Terminal(fed[i]) /\ \A j \in 1..(i - 1) : ~Terminal(fed[j])
    ELSE 0

OnlyStatusUpdates == \A i \in 1..Len(fed) : fed[i] \in TransportUpdates

TimedOutBefore(k) == timerAt # -1 /\ (k = 0 \/ timerAt < k)

\* C1: for any sequence of StatusUpdates fed to the subscription callback, the
\* future holds the Outcome decided by the first update that matches a
\* predicate (Rejected when rejectOn matches it, else Resolved with that
\* update), TimedOut when the timer ran before any such update, and stays
\* pending when nothing matched and no timer ran.
C1_OneOutcomeByFirstMatch ==
    OnlyStatusUpdates =>
        LET k == FirstTerminal
        IN  IF TimedOutBefore(k) THEN Outcome(future) = "TIMED_OUT"
            ELSE IF k = 0 THEN Outcome(future) = "PENDING"
            ELSE IF Matches(termination_options.rejectOn, fed[k])
                 THEN Outcome(future) = "REJECTED"
            ELSE Outcome(future) = "RESOLVED" /\ future.result = fed[k]

\* the step feeds one more value to the subscription callback
FeedStep == Len(fed') = Len(fed) + 1

\* C2: an update that matches both predicates, fed while the future is
\* pending, leaves the Outcome Rejected, never Resolved.
C2_RejectPrecedence ==
    [][(/\ FeedStep
        /\ ~done(future)
        /\ Matches(termination_options.rejectOn, fed'[Len(fed')])
        /\ Matches(termination_options.resolveOn, fed'[Len(fed')]))
       => Outcome(future') = "REJECTED"]_vars

\* C3: once the future holds a terminal Outcome, no later event (a fed update,
\* a synthesized disconnect update, the timer) changes it or raises an error.
C3_TerminalAbsorbing ==
    [][done(future) => (future' = future /\ raised' = "none")]_vars

\* C4: whenever the future is Resolved or Rejected, no timeout timer is still
\* armed for it.
C4_TimerCancelledOnOutcome ==
    Outcome(future) \in {"RESOLVED", "REJECTED"} => timer # "armed"

(***************************************************************************)
(* Claims about the disconnect handler                                     *)
(***************************************************************************)
NoFailureFlags(u) ==
    /\ u.py = "dict"
    /\ ~u.isError
    /\ u.internalError = "None"
    /\ u.dispatchError = "None"
    /\ ~HasEvent(u, ExtrinsicFailedEvent)

\* the reject predicates of chain.py that flag a transport (internal) error
TreatsTransportErrorAsTerminal(p) == p \in {"is_error", "default_reject_on"}

\* C9: a disconnect while the future is pending and the cached update carries
\* no failure flags leaves the Outcome Rejected when rejectOn treats a
\* transport error as terminal, and pending when it does not.
C9_DisconnectRejectsIffTransportErrorTerminal ==
    [][(/\ event' = "disconnect"
        /\ ~done(future)
        /\ NoFailureFlags(latest_result))
       => IF TreatsTransportErrorAsTerminal(termination_options.rejectOn)
          THEN Outcome(future') = "REJECTED"
          ELSE Outcome(future') = "PENDING"]_vars

\* C10: with the default rejectOn, a disconnect while the future is pending
\* rejects it with the connection error: the default predicate is true of the
\* synthesized update and the future is not left pending.
C10_DefaultRejectOnDisconnect ==
    [][(/\ event' = "disconnect"
        /\ ~done(future)
        /\ latest_result.py = "dict"
        /\ termination_options.rejectOn = "default_reject_on")
       => (/\ Outcome(future') = "REJECTED"
           /\ future'.exception = ConnectionError)]_vars

\* C11: a disconnect signalled before any update was delivered (the cache is
\* still None) feeds the subscription a well-formed synthesized update with
\* an empty event list, and the handler does not fail.
C11_DisconnectBeforeFirstUpdate ==
    [][(event' = "disconnect" /\ latest_result.py = "None")
       => (/\ raised' = "none"
           /\ FeedStep
           /\ fed'[Len(fed')].py = "dict"
           /\ fed'[Len(fed')].events = <<>>)]_vars

(***************************************************************************)
(* Claims about submit_signed_tx                                           *)
(***************************************************************************)
\* no call gets past line 78: nothing is ever subscribed, registered or awaited
SubscribeNotReached ==
    /\ transport = NoTransportActivity
    /\ pc \in {"idle", "L70", "L73", "L74", "L78", "ended"}
    /\ (pc = "ended" => outcome \in {"BlockchainApiMissingError",
                                     "SubscriptionsNotSupportedError", "TypeError"})

\* C8: a call made while the configured transport has no subscriptions ends
\* with SubscriptionsNotSupportedError, and nothing was subscribed, no
\* disconnect handler registered, no timer armed: the transport is untouched.
C8_CapabilityErrorBeforeSubscribe ==
    (pc = "ended" /\ api \in Apis /\ api # "WsProvider") =>
        /\ outcome = "SubscriptionsNotSupportedError"
        /\ transport = NoTransportActivity
        /\ timer # "armed"

C8_Witness ==
    /\ pc = "ended"
    /\ api = "HttpProvider"
    /\ outcome = "SubscriptionsNotSupportedError"

\* the call went past the api lookup and the capability check
PassedCapabilityCheck == pc = "ended" /\ api \in Apis /\ has_subscriptions(api)

\* C12: a call that passes the capability check evaluates updates with an
\* arbiter whose criteria are the effective ones: opts.resolveOn, else the
\* configured submitTxResolveOn, else is_finalized; opts.rejectOn, else
\* (extrinsic_failed or is_error); the timeout of opts.
C12_ArbiterUsesEffectiveCriteria ==
    PassedCapabilityCheck =>
        /\ resolve_on = opts_get(opts, "resolveOn", default_resolve_on(config))
        /\ reject_on = opts_get(opts, "rejectOn", "default_reject_on")
        /\ termination_options =
               [resolveOn |-> resolve_on, rejectOn |-> reject_on, timeout |-> opts.timeout]

(***************************************************************************)
(* Further claims about the Resolution Arbiter                             *)
(***************************************************************************)
\* C13: with rejectOn = extrinsic_failed, the first fed update that holds a
\* system.ExtrinsicFailed event (nothing having ended the submission before
\* it) leaves the Outcome Rejected, whatever is fed afterwards.
C13_ExtrinsicFailedRejects ==
    termination_options.rejectOn = "extrinsic_failed" =>
        \A i \in 1..Len(fed) :
            (/\ HasEvent(fed[i], ExtrinsicFailedEvent)
             /\ \A j \in 1..(i - 1) : ~Terminal(fed[j])
             /\ ~TimedOutBefore(i))
            => Outcome(future) = "REJECTED"

\* the loop runs a call_later callback once its delay has passed
SpecTimer == Init /\ [][Next]_vars /\ WF_vars(TimerFires)

SomeTerminalFed == \E i \in 1..Len(fed) : Terminal(fed[i])

\* C14: with timeout > 0 the submission eventually is TIMED_OUT unless a fed
\* update matched a predicate, and it becomes TIMED_OUT only by the timer
\* callback running while the future is pending.
C14_TimeoutReached ==
    /\ (termination_options.timeout > 0) =>
           <>(Outcome(future) = "TIMED_OUT" \/ SomeTerminalFed)
    /\ [][(Outcome(future') = "TIMED_OUT" /\ Outcome(future) # "TIMED_OUT")
          => (event' = "timer" /\ Outcome(future) = "PENDING")]_vars

C14_Witness ==
    /\ termination_options.timeout > 0
    /\ Len(fed) > 0
    /\ ~SomeTerminalFed
    /\ event = "timer"
    /\ Outcome(future) = "TIMED_OUT"

(***************************************************************************)
(* Claims about the Dispatch-Error Translator                              *)
(***************************************************************************)
KnownModuleError ==
    /\ terminal_error.py = "dict"
    /\ "dispatchError" \in terminal_error.keys
    /\ isModule(terminal_error.dispatchError)
    /\ terminal_error.dispatchError \in registry

\* C15: for a terminal error (a result dict) carrying a module dispatch error
\* that the registry knows, get_extrinsic_error returns the registry's
\* description of that pallet and error index.
C15_KnownModuleErrorTranslated ==
    (phase = "translated" /\ KnownModuleError)
        => translated = TReturns(ValDoc(terminal_error.dispatchError))

C15_Witness ==
    /\ phase = "translated"
    /\ KnownModuleError
    /\ terminal_error.dispatchError = ModuleError(MaxPallet, 1)
    /\ translated.val.t = "doc"

\* C16: get_extrinsic_error returns a value for every terminal error handed to
\* it (result dicts, the timeout error, the connection and transport errors) and
\* never raises; when the registry lookup throws it returns the raw dispatch
\* error.
C16_TranslationNeverRaises ==
    phase = "translated" =>
        /\ translated.raises = "none"
        /\ (/\ terminal_error.py = "dict"
            /\ "dispatchError" \in terminal_error.keys
            /\ isModule(terminal_error.dispatchError)
            /\ terminal_error.dispatchError \notin registry)
           => translated.val = ValRaw(terminal_error.dispatchError)

\* C17: when the awaited error is the timeout error, or a rejection whose update
\* carries no module dispatch error, the except clause of submit_signed_tx raises
\* that same error to the caller.
C17_NoModuleCodePassesThrough ==
    (phase = "surfaced" /\ ~isModule(terminal_error.dispatchError))
        => surfaced = ValExc(terminal_error.name)

\* C18: when the awaited error is a rejection on an update that carries a module
\* dispatch error the registry knows, the except clause of submit_signed_tx raises
\* the translated module error, not the raw rejection.
C18_ModuleRejectionTranslated ==
    (/\ phase = "surfaced"
     /\ isModule(terminal_error.dispatchError)
     /\ terminal_error.dispatchError \in registry)
        => surfaced = ValDoc(terminal_error.dispatchError)

(***************************************************************************)
(* Claims about make_subscription_promise_multi                            *)
(***************************************************************************)
\* C19: after any sequence of updates fed to the shared subscription, each
\* future's Outcome equals the Outcome its criteria set reaches alone on the same
\* sequence.
C19_FanOutIndependence ==
    \A i \in 1..Len(futures) : Outcome(futures[i]) = Outcome(alone[i])

(***************************************************************************)
(* Claims about the wait of submit_signed_tx                               *)
(***************************************************************************)
\* C20: a submit_signed_tx call that passed the capability check ends only once
\* a terminal Outcome exists, and it ends by raising only when that Outcome is
\* not Resolved.
C20_SuspendedUntilOutcome ==
    PassedCapabilityCheck =>
        /\ Outcome(future) # "PENDING"
        /\ (outcome # "none" => Outcome(future) # "RESOLVED")

(***************************************************************************)
(* Claims about the update built by handle_disconnect                      *)
(***************************************************************************)
\* the dict handle_disconnect builds is the only fed value without an isError key
IsSynthesized(u) == u.py = "dict" /\ u.keys = {"events", "internalError", "status", "txHash"}

\* the step runs handle_disconnect with a cached update
DisconnectStep == event' = "disconnect" /\ latest_result.py = "dict"

\* C21: the update that handle_disconnect feeds is in the Error phase (its
\* isError flag is set) and carries the connection error as internal error,
\* whatever the cached update was.
C21_SynthesizedIsError ==
    [][DisconnectStep
       => (/\ FeedStep
           /\ "isError" \in fed'[Len(fed')].keys
           /\ fed'[Len(fed')].isError
           /\ fed'[Len(fed')].internalError = ConnectionError)]_vars

\* C22: in the update that handle_disconnect feeds, the events, the dispatch
\* error and the transaction hash equal those of the cached update.
C22_SynthesizedCopiesOtherFields ==
    [][DisconnectStep
       => (/\ FeedStep
           /\ fed'[Len(fed')].events = latest_result.events
           /\ "dispatchError" \in fed'[Len(fed')].keys
           /\ fed'[Len(fed')].dispatchError = latest_result.dispatchError
           /\ fed'[Len(fed')].txHash = latest_result.txHash)]_vars

\* C23: at most one synthesized update is ever fed to the subscription, however
\* often the transport signals the disconnect.
C23_AtMostOneSynthesized ==
    Cardinality({i \in 1..Len(fed) : IsSynthesized(fed[i])}) <= 1

\* C24: a disconnect signalled once the future holds a terminal Outcome changes
\* nothing and the handler raises no error.
C24_DisconnectAfterOutcomeNoOp ==
    [][(DisconnectStep /\ done(future))
       => (future' = future /\ raised' = "none")]_vars

(***************************************************************************)
(* Claims about rejection payload and arrival order                        *)
(***************************************************************************)
\* C25: a fed update that matches rejectOn while the future is pending makes the
\* Outcome Rejected with that update's internal error or dispatch error, and
\* the feed call raises nothing, for every reject predicate.
C25_RejectCarriesPayload ==
    [][(/\ FeedStep
        /\ ~done(future)
        /\ Matches(termination_options.rejectOn, fed'[Len(fed')]))
       => (/\ raised' = "none"
           /\ Outcome(future') = "REJECTED"
           /\ future'.exception
                  \in {fed'[Len(fed')].internalError, fed'[Len(fed')].dispatchError}
                          \ {"None"})]_vars

\* C26: only the earliest fed update that matches a predicate is honoured: a
\* Resolved Outcome holds that earliest update, and when the earliest match
\* matches resolveOn only (no timer before it) the Outcome is Resolved with it,
\* whatever was fed before or after.
C26_FirstMatchInArrivalOrder ==
    /\ Outcome(future) = "RESOLVED"
           => (FirstTerminal # 0 /\ future.result = fed[FirstTerminal])
    /\ (/\ FirstTerminal # 0
        /\ ~TimedOutBefore(FirstTerminal)
        /\ ~Matches(termination_options.rejectOn, fed[FirstTerminal]))
           => (Outcome(future) = "RESOLVED" /\ future.result = fed[FirstTerminal])

\* the second half of C26 alone
ResolveFirstHonoured ==
    (/\ FirstTerminal # 0
     /\ ~TimedOutBefore(FirstTerminal)
     /\ ~Matches(termination_options.rejectOn, fed[FirstTerminal]))
        => (Outcome(future) = "RESOLVED" /\ future.result = fed[FirstTerminal])

(***************************************************************************)
(* Claims about the latest-update cell                                     *)
(***************************************************************************)
\* C28: a callback step leaves the cell holding the update just delivered, also
\* when feeding that update raises; no other step (disconnect, timer) changes
\* the cell.
C28_LatestResultSingleWriter ==
    [][IF event' = "callback" /\ FeedStep
       THEN latest_result' = fed'[Len(fed')]
       ELSE latest_result' = latest_result]_vars

C28_Witness ==
    /\ event = "callback"
    /\ raised = "TypeError"
    /\ Len(fed) >= 2
    /\ IsSynthesized(fed[Len(fed) - 1])
    /\ latest_result = fed[Len(fed)]
    /\ latest_result \in TransportUpdates

(***************************************************************************)
(* Claims about get_max_batchable                                          *)
(***************************************************************************)
\* C30: the counting loop of get_max_batchable terminates (every iteration
\* strictly decreases remaining_ref_time, which never goes below 0), and the
\* count returned is the largest with
\* count * extrinsic_ref_time <= (max_ref_time * 75) div 100.
C30_MaxBatchableTerminates ==
    /\ [][(batch_pc = "L62" /\ count' = count + 1)
          => (remaining_ref_time' < remaining_ref_time /\ remaining_ref_time' >= 0)]_vars
    /\ [](batch_pc = "returned"
            => (/\ count * extrinsic_ref_time <= total_ref_time
                /\ (count + 1) * extrinsic_ref_time > total_ref_time))

\* what holds of the loop for a nonzero reference time
PositiveRefTimeReturnsLargest ==
    (batch_pc = "returned" /\ extrinsic_ref_time > 0)
        => (/\ count * extrinsic_ref_time <= total_ref_time
            /\ (count + 1) * extrinsic_ref_time > total_ref_time)

(***************************************************************************)
(* Claims about ConfigService                                              *)
(***************************************************************************)
\* what get raises for a key that is not set
NotConfigured(k) == IF k = "api" THEN Raises("BlockchainApiMissingError") ELSE Raises("Exception")

C32_IdentifierRoundTrip ==
    /\ (/\ id_pc = "checked"
        /\ Len(id_key) \in allowed_decoded_lengths
        /\ id_prefix \in VALID_IDENTS)
           => id_result = IdReturns("True", "None")
    /\ id_pc \in {"checked", "checked_foreign"} => id_result.raises = "none"

====
